---------------------------- MODULE Spec2Model ----------------------------
(***************************************************************************)
(* A model of neopixel-utils (src/neopixel-utils.js): the object returned  *)
(* by Strip(pixelCount), its byte buffer and its four methods              *)
(* setPixelColor, getPixelColor, off and on.                               *)
(*                                                                         *)
(* The buffer is a function from the byte offsets 0 .. length-1 (the       *)
(* offsets the source uses) to byte values.  A JavaScript array is a       *)
(* sequence, so colorArray[0] of the source is elems[1] here.              *)
(***************************************************************************)
EXTENDS Integers, Sequences, FiniteSets, TLC

VARIABLES
    buffer,      \* obj.buffer: byte offset -> byte
    pixelCount,  \* obj.pixelCount
    call,        \* the last call made on the object, its arguments and outcome
    lastWrite    \* history: per pixel, the triple of the latest successful write,
                 \* tracked as long as no setPixelColor/on/off call has thrown

vars == <<buffer, pixelCount, call, lastWrite>>

-----------------------------------------------------------------------------
(* Bounds and constants *)

\* Largest pixelCount a strip is constructed with.
MaxPixelCount == 3

\* Bytes per pixel: new Buffer(pixelCount*3), index * 3.
BytesPerPixel == 3

\* Largest value writeUInt8 accepts.
UInt8Max == 255

-----------------------------------------------------------------------------
(* JavaScript values that reach the strip *)

Null == [type |-> "null"]
Arr(elems) == [type |-> "array", elems |-> elems]
Str(s) == [type |-> "string", str |-> s]

\* Array.isArray(color)
ArrayIsArray(v) == v.type = "array"

\* The methods of Buffer.prototype the source may call.  Buffer has readUInt8
\* and writeUInt8 (and their wider relatives) but no method named "read".
BufferMethods == {"readUInt8", "writeUInt8", "fill", "slice", "toString", "write"}

\* colorString.get.rgb(string): [r, g, b, alpha] for a string of a known
\* grammar, null for any other string.
ColorStringGetRgb(s) ==
    CASE s = "blue" -> Arr(<<0, 0, 255, 1>>)
      [] OTHER -> Null

\* The colors the calls are made with.
Colors ==
    { Arr(<<10, 20, 30>>),      \* every channel in 0..255
      Str("blue"),              \* a CSS color name
      Str("not-a-color"),       \* a string of no known grammar
      Arr(<<256, 20, 30>>),     \* first channel out of range
      Arr(<<5, 300, 6>>),       \* second channel out of range
      Arr(<<5, 6, -1>>) }       \* third channel out of range

\* The indices the calls are made with: below, inside and above every strip.
Indices == (-1) .. MaxPixelCount

\* What new Buffer(size) may hold before it is written: on the Node versions
\* that do not zero-fill it, any bytes.
UninitBytes == {0, 170}
NewBuffer(size) == [0 .. size - 1 -> UninitBytes]

-----------------------------------------------------------------------------
(* Buffer primitives *)

Length(buf) == Cardinality(DOMAIN buf)

Returned(buf) == [threw |-> FALSE, buffer |-> buf]
Threw(buf) == [threw |-> TRUE, buffer |-> buf]

\* A write with no check at all (noAssert): the value is masked to 8 bits and
\* an offset outside the buffer stores nothing.
WriteUInt8NoAssert(buf, value, offset) ==
    IF offset \in DOMAIN buf
    THEN Returned([buf EXCEPT ![offset] = value % (UInt8Max + 1)])
    ELSE Returned(buf)

\* A write that checks the offset but masks the value instead of rejecting it.
WriteUInt8Masked(buf, value, offset) ==
    IF offset \notin DOMAIN buf
    THEN Threw(buf)
    ELSE Returned([buf EXCEPT ![offset] = value % (UInt8Max + 1)])

\* A write that grows the buffer, as a store into a plain array would.
WriteUInt8Growing(buf, value, offset) ==
    IF value < 0 \/ value > UInt8Max
    THEN Threw(buf)
    ELSE IF offset \in DOMAIN buf
         THEN Returned([buf EXCEPT ![offset] = value])
         ELSE Returned((offset :> value) @@ buf)

\* buffer.writeUInt8(value, offset): throws when the value is not in 0..255 or
\* the offset is not inside the buffer, and then stores nothing.
WriteUInt8(buf, value, offset) ==
    IF value < 0 \/ value > UInt8Max
    THEN Threw(buf)
    ELSE IF offset \notin DOMAIN buf
         THEN Threw(buf)
         ELSE Returned([buf EXCEPT ![offset] = value])

\* buffer.read(offset): calling a method the Buffer does not have throws a
\* TypeError.
BufferRead(buf, offset) ==
    IF "read" \in BufferMethods
    THEN IF offset \in DOMAIN buf
         THEN [threw |-> FALSE, value |-> buf[offset]]
         ELSE [threw |-> TRUE]
    ELSE [threw |-> TRUE]

-----------------------------------------------------------------------------
(* The methods of the strip object *)

\* setPixelColor with a color that does not resolve written as black.
SetPixelColorNullAsBlack(buf, index, color) ==
    LET resolved == IF ~ArrayIsArray(color)
                    THEN ColorStringGetRgb(color.str)
                    ELSE color
        colorArray == IF resolved = Null THEN Arr(<<0, 0, 0>>) ELSE resolved
        w0 == WriteUInt8(buf, colorArray.elems[1], index * BytesPerPixel)
        w1 == WriteUInt8(w0.buffer, colorArray.elems[2], index * BytesPerPixel + 1)
        w2 == WriteUInt8(w1.buffer, colorArray.elems[3], index * BytesPerPixel + 2)
    IN  IF w0.threw THEN w0 ELSE IF w1.threw THEN w1 ELSE w2

\* setPixelColor storing the channels in the order G, R, B.
SetPixelColorGRB(buf, index, color) ==
    LET colorArray == IF ~ArrayIsArray(color)
                      THEN ColorStringGetRgb(color.str)
                      ELSE color
    IN  IF colorArray = Null
        THEN Threw(buf)
        ELSE LET w0 == WriteUInt8(buf, colorArray.elems[2], index * BytesPerPixel)
                 w1 == WriteUInt8(w0.buffer, colorArray.elems[1], index * BytesPerPixel + 1)
                 w2 == WriteUInt8(w1.buffer, colorArray.elems[3], index * BytesPerPixel + 2)
             IN  IF w0.threw THEN w0 ELSE IF w1.threw THEN w1 ELSE w2

\* setPixelColor(index, color): the color is an array, or a string handed to
\* colorString.get.rgb; the three channels are written one after the other, so
\* a write that throws leaves the earlier ones stored.  Reading colorArray[0]
\* of null throws before any write.
SetPixelColor(buf, index, color) ==
    LET colorArray == IF ~ArrayIsArray(color)
                      THEN ColorStringGetRgb(color.str)
                      ELSE color
    IN  IF colorArray = Null
        THEN Threw(buf)
        ELSE LET w0 == WriteUInt8(buf, colorArray.elems[1], index * BytesPerPixel)
                 w1 == WriteUInt8(w0.buffer, colorArray.elems[2], index * BytesPerPixel + 1)
                 w2 == WriteUInt8(w1.buffer, colorArray.elems[3], index * BytesPerPixel + 2)
             IN  IF w0.threw THEN w0 ELSE IF w1.threw THEN w1 ELSE w2

\* getPixelColor(index): the three reads, in order; the first that throws ends
\* the call.
GetPixelColor(buf, index) ==
    LET r0 == BufferRead(buf, index * BytesPerPixel)
        r1 == BufferRead(buf, index * BytesPerPixel + 1)
        r2 == BufferRead(buf, index * BytesPerPixel + 2)
    IN  IF r0.threw \/ r1.threw \/ r2.threw
        THEN [threw |-> TRUE]
        ELSE [threw |-> FALSE, ret |-> <<r0.value, r1.value, r2.value>>]

\* for (let i = from; i < count; i++) this.setPixelColor(i, color): a call that
\* throws ends the loop with the pixels before it written.
RECURSIVE SetLoop(_, _, _, _)
SetLoop(buf, i, count, color) ==
    IF i < count
    THEN LET r == SetPixelColor(buf, i, color)
         IN  IF r.threw THEN r ELSE SetLoop(r.buffer, i + 1, count, color)
    ELSE Returned(buf)

\* off() leaving the last pixel as it was.
OffShort(buf, count) == SetLoop(buf, 0, count - 1, Arr(<<0, 0, 0>>))

\* off()
Off(buf, count) == SetLoop(buf, 0, count, Arr(<<0, 0, 0>>))

\* on(color) leaving the last pixel as it was.
OnShort(buf, count, color) == SetLoop(buf, 0, count - 1, color)

\* on(color)
On(buf, count, color) == SetLoop(buf, 0, count, color)

\* for (let i = 0; i < limit; i++) obj.buffer[i] = 0: an indexed store into a
\* Buffer, which stores nothing at an offset outside it.
RECURSIVE ZeroLoop(_, _, _)
ZeroLoop(buf, i, limit) ==
    IF i < limit
    THEN ZeroLoop(IF i \in DOMAIN buf THEN [buf EXCEPT ![i] = 0] ELSE buf, i + 1, limit)
    ELSE buf

\* Strip zeroing one byte per pixel only.
StripZeroPerPixel(count, alloc) ==
    [buffer |-> ZeroLoop(alloc, 0, count), pixelCount |-> count]

\* Strip(pixelCount): alloc is the new Buffer(pixelCount*3) as allocated.
Strip(count, alloc) ==
    [buffer |-> ZeroLoop(alloc, 0, count * BytesPerPixel), pixelCount |-> count]

-----------------------------------------------------------------------------
(* History of the successful writes *)

\* The three bytes of pixel i.
Pixel(buf, i) ==
    <<buf[i * BytesPerPixel], buf[i * BytesPerPixel + 1], buf[i * BytesPerPixel + 2]>>

\* The triple a color stands for: the array itself, or the first three
\* elements of what colorString.get.rgb returns; none when it returns null.
Triple(color) ==
    IF ArrayIsArray(color)
    THEN color.elems
    ELSE LET rgba == ColorStringGetRgb(color.str)
         IN  IF rgba = Null THEN <<>> ELSE SubSeq(rgba.elems, 1, 3)

Untracked == [tracked |-> FALSE]
Tracked(px) == [tracked |-> TRUE, px |-> px]

\* lastWrite after a setPixelColor/on/off call that wrote `triple` to the
\* pixels in `written`, or threw.
Record(lw, threw, written, triple) ==
    IF threw \/ ~lw.tracked
    THEN Untracked
    ELSE Tracked([j \in DOMAIN lw.px |-> IF j \in written THEN triple ELSE lw.px[j]])

-----------------------------------------------------------------------------
(* The state machine *)

Init ==
    \E count \in 0 .. MaxPixelCount :
        \E alloc \in NewBuffer(count * BytesPerPixel) :
            LET obj == Strip(count, alloc)
            IN  /\ buffer = obj.buffer
                /\ pixelCount = obj.pixelCount
                /\ call = [name |-> "Strip"]
                /\ lastWrite = Tracked([j \in 0 .. count - 1 |-> <<0, 0, 0>>])

SetPixelColorCall(index, color) ==
    LET r == SetPixelColor(buffer, index, color)
    IN  /\ buffer' = r.buffer
        /\ call' = [name |-> "setPixelColor", index |-> index, color |-> color,
                    threw |-> r.threw]
        /\ lastWrite' = Record(lastWrite, r.threw, {index}, Triple(color))
        /\ UNCHANGED pixelCount

GetPixelColorCall(index) ==
    LET r == GetPixelColor(buffer, index)
    IN  /\ call' = IF r.threw
                   THEN [name |-> "getPixelColor", index |-> index, threw |-> TRUE]
                   ELSE [name |-> "getPixelColor", index |-> index, threw |-> FALSE,
                         ret |-> r.ret]
        /\ UNCHANGED <<buffer, pixelCount, lastWrite>>

OffCall ==
    LET r == Off(buffer, pixelCount)
    IN  /\ buffer' = r.buffer
        /\ call' = [name |-> "off", threw |-> r.threw]
        /\ lastWrite' = Record(lastWrite, r.threw, 0 .. pixelCount - 1, <<0, 0, 0>>)
        /\ UNCHANGED pixelCount

OnCall(color) ==
    LET r == On(buffer, pixelCount, color)
    IN  /\ buffer' = r.buffer
        /\ call' = [name |-> "on", color |-> color, threw |-> r.threw]
        /\ lastWrite' = Record(lastWrite, r.threw, 0 .. pixelCount - 1, Triple(color))
        /\ UNCHANGED pixelCount

Next ==
    \/ \E index \in Indices, color \in Colors : SetPixelColorCall(index, color)
    \/ \E index \in Indices : GetPixelColorCall(index)
    \/ OffCall
    \/ \E color \in Colors : OnCall(color)

Spec == Init /\ [][Next]_vars

-----------------------------------------------------------------------------
(* Vocabulary of the properties *)

ValidIndex(i) == i \in 0 .. pixelCount - 1

InByteRange(v) == v \in 0 .. UInt8Max

\* An array color with a channel outside 0..255.
HasOutOfRange(color) ==
    ArrayIsArray(color) /\ \E k \in 1 .. 3 : ~InByteRange(color.elems[k])

\* A string colorString.get.rgb cannot parse.
Unresolvable(color) ==
    ~ArrayIsArray(color) /\ ColorStringGetRgb(color.str) = Null

\* A color that resolves to a triple of bytes.
ResolvesInRange(color) ==
    /\ ~Unresolvable(color)
    /\ \A k \in 1 .. 3 : InByteRange(Triple(color)[k])

\* The first channel (1..3) of an array color that is outside 0..255.
FirstOutOfRange(color) ==
    CHOOSE k \in 1 .. 3 :
        /\ ~InByteRange(color.elems[k])
        /\ \A j \in 1 .. k - 1 : InByteRange(color.elems[j])

\* buf with the first n channels of triple stored at pixel i, nothing else touched.
WithChannels(buf, i, triple, n) ==
    [o \in DOMAIN buf |->
        IF o - i * BytesPerPixel \in 0 .. n - 1
        THEN triple[o - i * BytesPerPixel + 1]
        ELSE buf[o]]

AllZero(buf) == \A o \in DOMAIN buf : buf[o] = 0

\* setPixelColor(i, [0,0,0]) for i = from .. count-1, in index order, as long
\* as no call throws.
RECURSIVE ZeroEachPixel(_, _, _)
ZeroEachPixel(buf, from, count) ==
    IF from < count
    THEN ZeroEachPixel(SetPixelColor(buf, from, Arr(<<0, 0, 0>>)).buffer, from + 1, count)
    ELSE buf

-----------------------------------------------------------------------------
(* C1 *)

\* C1: a setPixelColor(index, [r,g,b]) with a valid index and every channel in
\* 0..255, followed by getPixelColor(index), makes getPixelColor return
\* normally with exactly [r,g,b].
C1_RoundTrip ==
    [][ ( /\ call.name = "setPixelColor"
          /\ ~call.threw
          /\ ValidIndex(call.index)
          /\ ArrayIsArray(call.color)
          /\ ResolvesInRange(call.color)
          /\ call'.name = "getPixelColor"
          /\ call'.index = call.index )
        => ( ~call'.threw /\ call'.ret = call.color.elems ) ]_vars

-----------------------------------------------------------------------------
(* C2 *)

\* C2: setPixelColor and getPixelColor with an index below 0 or at or above
\* pixelCount throw, and the buffer after the call is the buffer before it.
C2_IndexOutOfRangeThrows ==
    [][ ( /\ call'.name \in {"setPixelColor", "getPixelColor"}
          /\ ~ValidIndex(call'.index) )
        => ( call'.threw /\ buffer' = buffer ) ]_vars

C2_Witness ==
    /\ call.name = "setPixelColor"
    /\ call.index >= pixelCount
    /\ pixelCount >= 1
    /\ ResolvesInRange(call.color)
    /\ call.threw
    /\ ~AllZero(buffer)

-----------------------------------------------------------------------------
(* C3 *)

\* C3: the object Strip(pixelCount) returns, for every pixelCount >= 0, has a
\* buffer of pixelCount*3 bytes, every one of them 0.
C3_FreshStripIsZero ==
    call.name = "Strip" =>
        /\ DOMAIN buffer = 0 .. pixelCount * 3 - 1
        /\ Length(buffer) = pixelCount * 3
        /\ AllZero(buffer)

C3_Witness ==
    /\ call.name = "Strip"
    /\ pixelCount = 0
    /\ Length(buffer) = 0

-----------------------------------------------------------------------------
(* C4 *)

\* C4: no call, whether it returns or throws, changes pixelCount or the length
\* of the buffer, and the length is pixelCount*3 before and after every call.
C4_SizeNeverChanges ==
    [][ /\ Length(buffer) = pixelCount * 3
        /\ pixelCount' = pixelCount
        /\ DOMAIN buffer' = DOMAIN buffer
        /\ Length(buffer') = pixelCount' * 3 ]_vars

C4_Witness ==
    /\ call.name = "setPixelColor"
    /\ call.threw
    /\ call.index = pixelCount
    /\ pixelCount = 2
    /\ Length(buffer) = 6

-----------------------------------------------------------------------------
(* C5 *)

\* C5: after on(color) with a color that resolves to a triple of bytes, the
\* call has returned normally and every pixel of the buffer holds that triple,
\* in the order R, G, B, whatever the buffer held before.
C5_OnFillsEveryPixel ==
    ( call.name = "on" /\ ResolvesInRange(call.color) ) =>
        /\ ~call.threw
        /\ Length(buffer) = pixelCount * 3
        /\ \A i \in 0 .. pixelCount - 1 :
              /\ buffer[i * 3] = Triple(call.color)[1]
              /\ buffer[i * 3 + 1] = Triple(call.color)[2]
              /\ buffer[i * 3 + 2] = Triple(call.color)[3]

C5_Witness ==
    /\ call.name = "on"
    /\ call.color = Arr(<<10, 20, 30>>)
    /\ pixelCount = 3
    /\ buffer = [o \in 0 .. 8 |-> <<10, 20, 30>>[(o % 3) + 1]]

-----------------------------------------------------------------------------
(* C6 *)

\* C6: off() always returns normally and leaves every byte 0; the buffer it
\* leaves is the one setPixelColor(i, [0,0,0]) for i = 0..N-1 leaves; and an
\* off() right after an off() changes nothing.
C6_OffClears ==
    [][ call'.name = "off" =>
          /\ ~call'.threw
          /\ AllZero(buffer')
          /\ DOMAIN buffer' = DOMAIN buffer
          /\ buffer' = ZeroEachPixel(buffer, 0, pixelCount)
          /\ (call.name = "off" => buffer' = buffer) ]_vars

C6_Witness ==
    /\ call.name = "off"
    /\ ~call.threw
    /\ pixelCount = 3
    /\ AllZero(buffer)
    /\ Length(buffer) = 9

-----------------------------------------------------------------------------
(* C7 *)

\* C7, as stated: for every pixelCount >= 0, setPixelColor(index, s) with a
\* valid index and on(s), s a string the resolver cannot parse, throw and
\* change no byte.
C7_Original ==
    [][ ( /\ \/ call'.name = "setPixelColor" /\ ValidIndex(call'.index)
             \/ call'.name = "on"
          /\ Unresolvable(call'.color) )
        => ( call'.threw /\ buffer' = buffer ) ]_vars

\* C7, amended: such a call changes no byte for any pixelCount >= 0, and it
\* throws when pixelCount >= 1; on(s) of a strip of no pixels returns normally.
C7_UnresolvableThrowsOnNonEmpty ==
    [][ ( /\ \/ call'.name = "setPixelColor" /\ ValidIndex(call'.index)
             \/ call'.name = "on"
          /\ Unresolvable(call'.color) )
        => ( /\ buffer' = buffer
             /\ call'.threw <=> pixelCount >= 1 ) ]_vars

C7_Witness ==
    /\ call.name = "on"
    /\ Unresolvable(call.color)
    /\ call.threw
    /\ pixelCount >= 1
    /\ ~AllZero(buffer)

-----------------------------------------------------------------------------
(* C8 *)

\* C8: an on(color) that throws, for whatever reason, leaves the buffer as it
\* was before the call.
C8_FailedOnChangesNothing ==
    [][ ( call'.name = "on" /\ call'.threw ) => buffer' = buffer ]_vars

-----------------------------------------------------------------------------
(* C9 *)

\* C9, as stated: setPixelColor with a valid index and an array color with a
\* channel outside 0..255 returns normally and stores each channel mod 256.
C9_Original ==
    ( /\ call.name = "setPixelColor"
      /\ ValidIndex(call.index)
      /\ HasOutOfRange(call.color) )
    => ( /\ ~call.threw
         /\ \A k \in 1 .. 3 :
               buffer[call.index * 3 + k - 1] = call.color.elems[k] % 256 )

\* C9, amended: such a call throws at the first channel outside 0..255; the
\* channels before it are stored, that channel and the later ones are not, no
\* other byte changes, and every byte of the buffer stays in 0..255.
C9_OutOfRangeChannelThrows ==
    [][ /\ \A o \in DOMAIN buffer : InByteRange(buffer[o])
        /\ \A o \in DOMAIN buffer' : InByteRange(buffer'[o])
        /\ ( /\ call'.name = "setPixelColor"
             /\ ValidIndex(call'.index)
             /\ HasOutOfRange(call'.color) )
           => ( /\ call'.threw
                /\ buffer' = WithChannels(buffer, call'.index, call'.color.elems,
                                          FirstOutOfRange(call'.color) - 1) ) ]_vars

C9_Witness ==
    /\ call.name = "setPixelColor"
    /\ call.color = Arr(<<5, 6, -1>>)
    /\ call.index = 1
    /\ call.threw
    /\ pixelCount = 2
    /\ buffer = (0 :> 0) @@ (1 :> 0) @@ (2 :> 255) @@ (3 :> 5) @@ (4 :> 6) @@ (5 :> 30)

-----------------------------------------------------------------------------
(* C10 *)

\* C10: a setPixelColor(i, color) that returns stores the resolved triple at
\* the bytes i*3, i*3+1, i*3+2 in the order R, G, B and changes no other byte
\* and not pixelCount; and as long as no setPixelColor/on/off call has thrown,
\* every pixel holds the triple of the latest call that wrote it, or (0,0,0).
C10_SingleWriteFrame ==
    [][ /\ ( call'.name = "setPixelColor" /\ ~call'.threw ) =>
             /\ pixelCount' = pixelCount
             /\ buffer' = [o \in DOMAIN buffer |->
                             IF o = call'.index * 3 THEN Triple(call'.color)[1]
                             ELSE IF o = call'.index * 3 + 1 THEN Triple(call'.color)[2]
                             ELSE IF o = call'.index * 3 + 2 THEN Triple(call'.color)[3]
                             ELSE buffer[o]]
        /\ lastWrite'.tracked =>
             \A j \in 0 .. pixelCount' - 1 : Pixel(buffer', j) = lastWrite'.px[j] ]_vars

C10_Witness ==
    /\ call.name = "setPixelColor"
    /\ call.index = 1
    /\ call.color = Arr(<<10, 20, 30>>)
    /\ ~call.threw
    /\ pixelCount = 2
    /\ lastWrite.tracked
    /\ buffer = (0 :> 0) @@ (1 :> 0) @@ (2 :> 255) @@ (3 :> 10) @@ (4 :> 20) @@ (5 :> 30)

=============================================================================
